---- MODULE Spec2Model ----
(***************************************************************************)
(* The staging/core ETL pipeline of app/etl.py: main() provisions the two  *)
(* tables, discovers the CSV batches, appends each batch to the staging    *)
(* table, merges staging into the core table with one                      *)
(* INSERT ... SELECT ... ON CONFLICT DO NOTHING and truncates staging.     *)
(* The tables outlive a run, so the model runs the pipeline several times  *)
(* against the same warehouse.                                             *)
(***************************************************************************)
EXTENDS Integers, Sequences, FiniteSets, Bags

VARIABLES
    pc,          \* position of main(): the stage about to run, or how the run ended
    runs,        \* number of pipeline runs started so far
    exitStatus,  \* exit status of the current run's process (0 unless sys.exit(1))
    failedIn,    \* stage whose exception reached main's handler, "none" otherwise
    staging,     \* staging_ecomm_sales: rows in physical (append) order
    core,        \* core_ecomm_sales: a bag of records
    csv_files,   \* the list find_csv_files returned in this run
    idx,         \* position of the for loop of main in csv_files
    loaded,      \* files whose rows this run appended to staging, in order
    rowcount,    \* result.rowcount of this run's merge insert, -1 before it
    merges,      \* merge inserts committed in this run
    truncates,   \* staging truncations committed in this run
    atStart,     \* the two tables as this run found them
    uncleared,   \* the previous run, when its merge committed and its clear failed
    schema,      \* the tables that exist in the database
    provisions,  \* calls of create_tables in this run
    batch,       \* the DataFrame pd.read_csv returned to process_file_to_staging
    strDtype,    \* the dtype the installed pandas gives a column of strings
    caught       \* what the handler of process_file_to_staging caught, or "none"

vars == <<pc, runs, exitStatus, failedIn, staging, core, csv_files, idx, loaded,
          rowcount, merges, truncates, atStart, uncleared, schema, provisions,
          batch, strDtype, caught>>

\* Bounds of the model.
MaxRuns == 2
MaxFiles == 2

\* Invoice numbers and stock codes are strings; a string is a sequence of
\* characters, so that CONCAT is modelled by what it does. Either may hold
\* the character "_".
INV1 == <<"N", "_">>
INV2 == <<"N">>
SKU1 == <<"K">>
SKU2 == <<"_", "K">>

Row(inv, sku, qty) == [invoice |-> inv, stockcode |-> sku, quantity |-> qty]

\* The batch files the data folder may hold, with what pd.read_csv and the
\* type conversions make of each.
\*   "ok"         the file parses and converts
\*   "unreadable" pd.read_csv raises (empty, undecodable or malformed file)
\*   "baddate"    pd.to_datetime(df['invoicedate']) raises
FileNames == {"a.csv", "b.csv", "c.csv", "bad.csv", "nodate.csv"}

FileKind(f) ==
    CASE f = "bad.csv" -> "unreadable"
      [] f = "nodate.csv" -> "baddate"
      [] OTHER -> "ok"

FileRows(f) ==
    CASE f = "a.csv" -> <<Row(INV1, SKU1, 5), Row(INV1, SKU2, 3)>>
      [] f = "b.csv" -> <<Row(INV1, SKU1, 5), Row(INV2, SKU1, 2)>>
      [] f = "c.csv" -> <<Row(INV1, SKU1, 9), Row(INV2, SKU2, 1)>>
      [] f = "nodate.csv" -> <<Row(INV2, SKU2, 4)>>
      [] OTHER -> <<>>

\* glob.glob: any list of distinct files, in any order.
FileLists ==
    {s \in UNION {[1..n -> FileNames] : n \in 0..MaxFiles} :
        \A i, j \in DOMAIN s : i # j => s[i] # s[j]}

\* Step 4 of the transformation: the rows of a parsed batch, stamped with the
\* file they came from.
Transform(f) ==
    [i \in 1..Len(FileRows(f)) |->
        [invoice |-> FileRows(f)[i].invoice,
         stockcode |-> FileRows(f)[i].stockcode,
         quantity |-> FileRows(f)[i].quantity,
         source_file |-> f]]

\* CONCAT(invoice, '_', stockcode) AS line_item_id
LineItemId(r) == r.invoice \o <<"_">> \o r.stockcode

\* The SELECT list of INSERT_FROM_STAGING: the derived key and the business
\* columns; source_file is not carried into the core table.
CoreRecord(r) ==
    [line_item_id |-> LineItemId(r),
     invoice |-> r.invoice,
     stockcode |-> r.stockcode,
     quantity |-> r.quantity]

\* Mutant of Conflicts: the core table has no primary key to conflict on.
ConflictsNever(c, id) == FALSE

\* The primary key of core_ecomm_sales as ON CONFLICT (line_item_id) sees it:
\* a record with this key is already in the table.
Conflicts(c, id) == \E x \in BagToSet(c) : x.line_item_id = id

\* Mutant of InsertRow: a plain INSERT, without the ON CONFLICT clause, into a
\* table that accepts the duplicate.
InsertRowNoConflictClause(acc, r) ==
    [core |-> acc.core (+) SetToBag({CoreRecord(r)}),
     rowcount |-> acc.rowcount + 1]

\* Mutant of InsertRow: ON CONFLICT (line_item_id) DO UPDATE, the staged row
\* replaces the record that has its key.
InsertRowUpsert(acc, r) ==
    LET kept == {x \in BagToSet(acc.core) : x.line_item_id # LineItemId(r)}
    IN [core |-> SetToBag(kept \cup {CoreRecord(r)}),
        rowcount |-> acc.rowcount + 1]

\* Mutant of InsertRow: the count is of the rows selected, not of the rows
\* inserted.
InsertRowCountsConflicts(acc, r) ==
    IF \E x \in BagToSet(acc.core) : x.line_item_id = LineItemId(r)
    THEN [core |-> acc.core, rowcount |-> acc.rowcount + 1]
    ELSE [core |-> acc.core (+) SetToBag({CoreRecord(r)}),
          rowcount |-> acc.rowcount + 1]

\* One row of the SELECT reaching the INSERT: DO NOTHING on a conflict,
\* otherwise the record is added and counted.
InsertRow(acc, r) ==
    IF Conflicts(acc.core, LineItemId(r))
    THEN acc
    ELSE [core |-> acc.core (+) SetToBag({CoreRecord(r)}),
          rowcount |-> acc.rowcount + 1]

\* INSERT_FROM_STAGING over the rows in the order the scan yields them.
RECURSIVE InsertFromStaging(_, _)
InsertFromStaging(acc, rows) ==
    IF rows = <<>>
    THEN acc
    ELSE InsertFromStaging(InsertRow(acc, Head(rows)), Tail(rows))

\* FROM staging_ecomm_sales has no ORDER BY: the heap scan yields the rows in
\* physical order from a start position the query does not fix.
ScanStarts(stg) == IF stg = <<>> THEN {1} ELSE 1..Len(stg)

SeqScan(stg, start) ==
    SubSeq(stg, start, Len(stg)) \o SubSeq(stg, 1, start - 1)

\* Mutant of AfterFile: move_data_to_core is called inside the loop.
AfterFileMergesInLoop(files, i) == "merge"

\* Mutant of CreateTableIfNotExists: DROP TABLE IF EXISTS, then CREATE TABLE.
CreateTableDropFirst(sch, name) ==
    [schema |-> sch \cup {name}, created |-> TRUE]

\* CREATE TABLE IF NOT EXISTS: the table is created, empty, only when the
\* schema has no table of that name.
CreateTableIfNotExists(sch, name) ==
    [schema |-> sch \cup {name}, created |-> name \notin sch]

\* The for loop of main: the merge follows the last file.
AfterFile(files, i) == IF i > Len(files) THEN "merge" ELSE "load"

Cleared == [failed |-> FALSE, loaded |-> <<>>]

\* No DataFrame: main hands the files to process_file_to_staging by name.
NoBatch == [name |-> "", columns |-> {}, rows |-> <<>>]

Init ==
    /\ pc = "start"
    /\ runs = 1
    /\ exitStatus = 0
    /\ failedIn = "none"
    /\ staging = <<>>
    /\ core = EmptyBag
    /\ csv_files = <<>>
    /\ idx = 1
    /\ loaded = <<>>
    /\ rowcount = -1
    /\ merges = 0
    /\ truncates = 0
    /\ atStart = [staging |-> <<>>, core |-> EmptyBag]
    /\ uncleared = Cleared
    /\ schema = {}
    /\ provisions = 0
    /\ batch = NoBatch
    /\ strDtype = "object"
    /\ caught = "none"

tables == <<staging, core>>
loopVars == <<csv_files, idx, loaded>>
mergeVars == <<rowcount, merges, truncates>>
runVars == <<runs, atStart, uncleared>>
provVars == <<schema, provisions>>
dfVars == <<batch, strDtype, caught>>

\* get_db_engine returns an engine.
GetDbEngine ==
    /\ pc = "start"
    /\ pc' = "provision"
    /\ UNCHANGED <<exitStatus, failedIn, tables, loopVars, mergeVars, runVars, provVars, dfVars>>

\* Mutant of GetDbEngineFails: the failure is raised as an Exception, which
\* main's handler catches and turns into a normal return.
GetDbEngineFailsCaught ==
    /\ pc = "start"
    /\ pc' = "failed"
    /\ failedIn' = "connect"
    /\ UNCHANGED <<exitStatus, tables, loopVars, mergeVars, runVars, provVars, dfVars>>

\* get_db_engine: a missing variable or a failed connection ends in sys.exit(1).
\* SystemExit is no Exception, so main's handler does not catch it.
GetDbEngineFails ==
    /\ pc = "start"
    /\ pc' = "exited"
    /\ exitStatus' = 1
    /\ UNCHANGED <<failedIn, tables, loopVars, mergeVars, runVars, provVars, dfVars>>

\* create_tables: CREATE TABLE IF NOT EXISTS for both tables, then commit.
CreateTables ==
    /\ pc = "provision"
    /\ LET stg == CreateTableIfNotExists(schema, "staging_ecomm_sales")
           cor == CreateTableIfNotExists(stg.schema, "core_ecomm_sales")
       IN /\ schema' = cor.schema
          /\ staging' = IF stg.created THEN <<>> ELSE staging
          /\ core' = IF cor.created THEN EmptyBag ELSE core
    /\ provisions' = provisions + 1
    /\ pc' = "discover"
    /\ UNCHANGED <<exitStatus, failedIn, loopVars, mergeVars, runVars, dfVars>>

\* Mutant of CreateTablesFails: the handler logs and does not re-raise.
CreateTablesFailsSwallowed ==
    /\ pc = "provision"
    /\ provisions' = provisions + 1
    /\ pc' = "discover"
    /\ failedIn' = "provision"
    /\ UNCHANGED <<exitStatus, tables, loopVars, mergeVars, runVars, schema, dfVars>>

\* create_tables raises before its commit: no table is created, the error is
\* logged and re-raised, and main's handler ends the run.
CreateTablesFails ==
    /\ pc = "provision"
    /\ provisions' = provisions + 1
    /\ pc' = "failed"
    /\ failedIn' = "provision"
    /\ UNCHANGED <<exitStatus, tables, loopVars, mergeVars, runVars, schema, dfVars>>

\* Mutant of FindCsvFiles: main has no early return on an empty list.
FindCsvFilesNoEarlyReturn ==
    /\ pc = "discover"
    /\ \E files \in FileLists :
        /\ csv_files' = files
        /\ pc' = IF files = <<>> THEN "merge" ELSE "load"
    /\ UNCHANGED <<exitStatus, failedIn, tables, idx, loaded, mergeVars, runVars, provVars, dfVars>>

\* find_csv_files and the early return of main on an empty list.
FindCsvFiles ==
    /\ pc = "discover"
    /\ \E files \in FileLists :
        /\ csv_files' = files
        /\ pc' = IF files = <<>> THEN "noop" ELSE "load"
    /\ UNCHANGED <<exitStatus, failedIn, tables, idx, loaded, mergeVars, runVars, provVars, dfVars>>

\* process_file_to_staging for csv_files[idx], one iteration of the loop.
ProcessFileToStaging ==
    /\ pc = "load"
    /\ idx <= Len(csv_files)
    /\ idx' = idx + 1
    /\ LET f == csv_files[idx] IN
        \/ \* the batch is transformed and to_sql appends it
           /\ FileKind(f) = "ok"
           /\ staging' = staging \o Transform(f)
           /\ loaded' = Append(loaded, f)
           /\ pc' = AfterFile(csv_files, idx')
           /\ UNCHANGED failedIn
        \/ \* to_sql raises: the insert is rolled back, the handler logs
           /\ FileKind(f) = "ok"
           /\ pc' = AfterFile(csv_files, idx')
           /\ UNCHANGED <<staging, loaded, failedIn>>
        \/ \* pd.to_datetime raises: the handler logs, df.columns is readable
           /\ FileKind(f) = "baddate"
           /\ pc' = AfterFile(csv_files, idx')
           /\ UNCHANGED <<staging, loaded, failedIn>>
        \/ \* pd.read_csv raises: df is unbound, so evaluating list(df.columns)
           \* in the handler raises UnboundLocalError out of the function
           /\ FileKind(f) = "unreadable"
           /\ pc' = "failed"
           /\ failedIn' = "load"
           /\ UNCHANGED <<staging, loaded>>
    /\ UNCHANGED <<exitStatus, core, csv_files, mergeVars, runVars, provVars, dfVars>>

\* Mutant of MoveDataToCoreInsert: the merge inserts and commits one staged
\* row at a time.
MoveDataToCoreInsertRowByRow ==
    /\ pc = "merge"
    /\ LET missing == {i \in DOMAIN staging : ~Conflicts(core, LineItemId(staging[i]))}
       IN IF missing = {}
          THEN /\ pc' = "truncate"
               /\ merges' = merges + 1
               /\ rowcount' = IF rowcount < 0 THEN 0 ELSE rowcount
               /\ UNCHANGED core
          ELSE /\ \E i \in missing :
                    core' = core (+) SetToBag({CoreRecord(staging[i])})
               /\ rowcount' = IF rowcount < 0 THEN 1 ELSE rowcount + 1
               /\ UNCHANGED <<pc, merges>>
    /\ UNCHANGED <<exitStatus, failedIn, staging, loopVars, truncates, runVars, provVars, dfVars>>

\* move_data_to_core, step 1: the insert statement and its commit.
MoveDataToCoreInsert ==
    /\ pc = "merge"
    /\ \E start \in ScanStarts(staging) :
        LET res == InsertFromStaging([core |-> core, rowcount |-> 0],
                                     SeqScan(staging, start))
        IN /\ core' = res.core
           /\ rowcount' = res.rowcount
    /\ merges' = merges + 1
    /\ pc' = "truncate"
    /\ UNCHANGED <<exitStatus, failedIn, staging, loopVars, truncates, runVars, provVars, dfVars>>

\* Mutant of MoveDataToCoreInsertFails: staging is truncated on the way out
\* of a failed merge.
MoveDataToCoreInsertFailsClearing ==
    /\ pc = "merge"
    /\ pc' = "failed"
    /\ failedIn' = "merge"
    /\ staging' = <<>>
    /\ UNCHANGED <<exitStatus, core, loopVars, mergeVars, runVars, provVars, dfVars>>

\* Mutant of MoveDataToCoreInsertFails: the handler logs and does not re-raise,
\* and the truncation follows.
MoveDataToCoreInsertFailsSwallowed ==
    /\ pc = "merge"
    /\ pc' = "truncate"
    /\ UNCHANGED <<exitStatus, failedIn, tables, loopVars, mergeVars, runVars, provVars, dfVars>>

\* move_data_to_core, step 1 raises: nothing is committed, the error is logged
\* and re-raised, main's handler ends the run.
MoveDataToCoreInsertFails ==
    /\ pc = "merge"
    /\ pc' = "failed"
    /\ failedIn' = "merge"
    /\ UNCHANGED <<exitStatus, tables, loopVars, mergeVars, runVars, provVars, dfVars>>

\* move_data_to_core, step 2: TRUNCATE TABLE staging_ecomm_sales and its commit,
\* then main logs the successful completion.
MoveDataToCoreTruncate ==
    /\ pc = "truncate"
    /\ staging' = <<>>
    /\ truncates' = truncates + 1
    /\ pc' = "done"
    /\ UNCHANGED <<exitStatus, failedIn, core, loopVars, rowcount, merges, runVars,
                   provVars, dfVars>>

\* Mutant of MoveDataToCoreTruncateFails: the insert is committed only
\* together with the truncation, so a failed truncation rolls it back.
MoveDataToCoreTruncateFailsRollsBack ==
    /\ pc = "truncate"
    /\ pc' = "failed"
    /\ failedIn' = "truncate"
    /\ core' = atStart.core
    /\ UNCHANGED <<exitStatus, staging, loopVars, mergeVars, runVars, provVars, dfVars>>

\* move_data_to_core, step 2 raises after the insert was committed.
MoveDataToCoreTruncateFails ==
    /\ pc = "truncate"
    /\ pc' = "failed"
    /\ failedIn' = "truncate"
    /\ UNCHANGED <<exitStatus, tables, loopVars, mergeVars, runVars, provVars, dfVars>>

RunEnded == pc \in {"done", "noop", "failed", "exited"}

\* The script is started again against the same warehouse.
StartRun ==
    /\ RunEnded
    /\ runs < MaxRuns
    /\ runs' = runs + 1
    /\ atStart' = [staging |-> staging, core |-> core]
    /\ uncleared' = IF failedIn = "truncate"
                    THEN [failed |-> TRUE, loaded |-> loaded]
                    ELSE Cleared
    /\ pc' = "start"
    /\ exitStatus' = 0
    /\ failedIn' = "none"
    /\ csv_files' = <<>>
    /\ idx' = 1
    /\ loaded' = <<>>
    /\ merges' = 0
    /\ truncates' = 0
    /\ rowcount' = -1
    /\ provisions' = 0
    /\ UNCHANGED <<tables, schema, dfVars>>

Next ==
    \/ GetDbEngine
    \/ GetDbEngineFails
    \/ CreateTables
    \/ CreateTablesFails
    \/ FindCsvFiles
    \/ ProcessFileToStaging
    \/ MoveDataToCoreInsert
    \/ MoveDataToCoreInsertFails
    \/ MoveDataToCoreTruncate
    \/ MoveDataToCoreTruncateFails
    \/ StartRun

Spec == Init /\ [][Next]_vars

(***************************************************************************)
(* process_file_to_staging on one DataFrame, cell by cell. The columns     *)
(* modelled are the two key columns (strings), quantity (numeric),         *)
(* invoicedate, and a column "note" the staging table does not have.       *)
(***************************************************************************)

\* Bound of the model: the rows of a batch.
MaxRows == 2

\* The missing value of a cell (NaN in the DataFrame, NULL in the table). It
\* is no string of characters: a character is a string of length one.
NaN == <<"NaN">>
NanText == <<"n", "a", "n">>
Unknown == <<"U", "n", "k", "n", "o", "w", "n">>

\* A quantity cell as read: a finite number, an infinity ("inf"), a text
\* that is no number, or missing.
Num(n) == [kind |-> "num", n |-> n]
Infinite == [kind |-> "inf", n |-> 0]
NotANumber == [kind |-> "nan", n |-> 0]
NonNumeric == [kind |-> "text", n |-> 0]

StagingCols == {"invoice", "stockcode", "quantity", "invoicedate", "source_file"}
ColumnNames == {"invoice", "stockcode", "quantity", "invoicedate", "note"}

\* The cells a column can hold; a column the file does not have holds nothing.
CellsOf(col, columns) ==
    IF col \notin columns THEN
        IF col = "quantity" THEN {NotANumber}
        ELSE IF col = "invoicedate" THEN {"ok"} ELSE {NaN}
    ELSE CASE col = "invoice" -> {NaN, INV1}
           [] col = "stockcode" -> {NaN, SKU1}
           [] col = "quantity" -> {NotANumber, NonNumeric, Num(5), Infinite}
           [] col = "invoicedate" -> {"ok", "bad"}

RawRows(columns) ==
    [invoice : CellsOf("invoice", columns),
     stockcode : CellsOf("stockcode", columns),
     quantity : CellsOf("quantity", columns),
     invoicedate : CellsOf("invoicedate", columns)]

\* The DataFrames pd.read_csv may return for a file x.csv.
Batches ==
    UNION {[name : {"x.csv"}, columns : {columns},
            rows : UNION {[1..n -> RawRows(columns)] : n \in 0..MaxRows}] :
           columns \in SUBSET ColumnNames}

\* Mutant of ToNumeric: errors='raise', a text that is no number raises.
ToNumericRaise(cell) ==
    [raised |-> cell.kind = "text",
     value |-> IF cell.kind \in {"num", "inf"} THEN cell ELSE NotANumber]

\* pd.to_numeric(..., errors='coerce'): what is no number becomes NaN, and
\* nothing is raised.
ToNumeric(cell) ==
    [raised |-> FALSE,
     value |-> IF cell.kind \in {"num", "inf"} THEN cell ELSE NotANumber]

\* .fillna(0)
FillNaZero(cell) == IF cell.kind = "nan" THEN Num(0) ELSE cell

\* .astype(int): a non-finite value cannot be cast and raises.
AsTypeInt(cell) == [raised |-> cell.kind = "inf", value |-> cell.n]

\* Line 118 on one quantity cell.
Quantity(cell) == AsTypeInt(FillNaZero(ToNumeric(cell).value))

\* Series.astype(str): with object-dtype strings NaN becomes the text "nan";
\* with the str dtype the missing value stays missing.
AsTypeStr(v, dtype) ==
    IF v = NaN /\ dtype = "object" THEN NanText ELSE v

\* .fillna('Unknown')
FillNaUnknown(v) == IF v = NaN THEN Unknown ELSE v

\* Step 3: a string column the DataFrame has is converted and filled; one it
\* does not have is left out of df_to_load and is NULL in the table.
StrColumn(b, col, v, dtype) ==
    IF col \in b.columns THEN FillNaUnknown(AsTypeStr(v, dtype)) ELSE NaN

\* The row df_to_load hands to to_sql: the staging columns, "note" dropped.
NormalizeRow(b, r, dtype) ==
    [invoice |-> StrColumn(b, "invoice", r.invoice, dtype),
     stockcode |-> StrColumn(b, "stockcode", r.stockcode, dtype),
     quantity |-> Quantity(r.quantity).value,
     source_file |-> b.name]

Normalized(b, dtype) ==
    [i \in DOMAIN b.rows |-> NormalizeRow(b, b.rows[i], dtype)]

\* Step 2 of the transformation: the first statement that raises, if any.
\* df['invoicedate'] and df['quantity'] raise KeyError on an absent column.
Raised(b) ==
    IF "invoicedate" \notin b.columns THEN "KeyError"
    ELSE IF \E i \in DOMAIN b.rows : b.rows[i].invoicedate = "bad" THEN "to_datetime"
    ELSE IF "quantity" \notin b.columns THEN "KeyError"
    ELSE IF \E i \in DOMAIN b.rows : ToNumeric(b.rows[i].quantity).raised THEN "to_numeric"
    ELSE IF \E i \in DOMAIN b.rows : Quantity(b.rows[i].quantity).raised THEN "astype"
    ELSE "none"

\* Mutant of AfterFailedToSql: rows are inserted one by one with autocommit,
\* and those before the failing last row stay.
AfterFailedToSqlPartial(stg, rows) ==
    stg \o SubSeq(rows, 1, Len(rows) - 1)

\* to_sql raises: its INSERT runs in one transaction, which is rolled back.
AfterFailedToSql(stg, rows) == stg

BothTables == {"staging_ecomm_sales", "core_ecomm_sales"}

\* One call of process_file_to_staging on any DataFrame, with any rows
\* already in staging.
LoadInit ==
    /\ pc = "load"
    /\ runs = 1
    /\ exitStatus = 0
    /\ failedIn = "none"
    /\ staging \in {<<>>, Transform("a.csv")}
    /\ core = EmptyBag
    /\ csv_files = <<"x.csv">>
    /\ idx = 1
    /\ loaded = <<>>
    /\ rowcount = -1
    /\ merges = 0
    /\ truncates = 0
    /\ atStart = [staging |-> staging, core |-> EmptyBag]
    /\ uncleared = Cleared
    /\ schema = BothTables
    /\ provisions = 1
    /\ batch \in Batches
    /\ strDtype \in {"object", "str"}
    /\ caught = "none"

\* process_file_to_staging once pd.read_csv has returned batch.
LoadBatch ==
    /\ pc = "load"
    /\ pc' = "returned"
    /\ idx' = idx + 1
    /\ \/ \* a conversion raises: the handler logs and the function returns
          /\ Raised(batch) # "none"
          /\ caught' = Raised(batch)
          /\ UNCHANGED <<staging, loaded>>
       \/ \* to_sql appends the rows of df_to_load
          /\ Raised(batch) = "none"
          /\ staging' = staging \o Normalized(batch, strDtype)
          /\ loaded' = Append(loaded, batch.name)
          /\ UNCHANGED caught
       \/ \* to_sql raises
          /\ Raised(batch) = "none"
          /\ staging' = AfterFailedToSql(staging, Normalized(batch, strDtype))
          /\ caught' = "to_sql"
          /\ UNCHANGED loaded
    /\ UNCHANGED <<exitStatus, failedIn, core, csv_files, mergeVars, runVars, provVars,
                   batch, strDtype>>

LoadNext == LoadBatch

LoadSpec == LoadInit /\ [][LoadNext]_vars

(***************************************************************************)
(* Properties                                                              *)
(***************************************************************************)

CoreRows == BagToSet(core)
SameKey(r, x) == r.invoice = x.invoice /\ r.stockcode = x.stockcode
StagedIds(stg) == {LineItemId(stg[i]) : i \in DOMAIN stg}
CoreIds(c) == {x.line_item_id : x \in BagToSet(c)}

\* The rows this run's loads appended, in order.
RECURSIVE RowsOf(_)
RowsOf(files) ==
    IF files = <<>> THEN <<>> ELSE Transform(Head(files)) \o RowsOf(Tail(files))

\* The merge insert of this run has committed and staging still holds what it read.
Merged == pc = "truncate" \/ failedIn = "truncate"

\* C1: in every reachable state the core table holds at most one record per
\* line_item_id, and at most one per (invoice, stockcode) pair.
C1_CoreKeyUnique ==
    \A x \in CoreRows :
        /\ CopiesIn(x, core) = 1
        /\ \A y \in CoreRows :
            (x.line_item_id = y.line_item_id \/ SameKey(x, y)) => x = y

\* C1 witness: a rerun has merged a staging table that held the same
\* identifier more than once, on top of a core table that already had rows.
C1_Witness ==
    /\ Merged
    /\ runs > 1
    /\ atStart.core # EmptyBag
    /\ \E i, j \in DOMAIN staging :
        i # j /\ LineItemId(staging[i]) = LineItemId(staging[j])

\* C2: a merge that reads the staged content the previous merge read (the
\* clear failed and this run appended nothing) adds no row, changes no row
\* and reports 0.
C2_MergeIdempotent ==
    (pc = "truncate" /\ uncleared.failed /\ staging = atStart.staging)
        => (core = atStart.core /\ rowcount = 0)

\* C2 witness: the second merge over the same non-empty staged content.
C2_Witness ==
    /\ pc = "truncate"
    /\ uncleared.failed
    /\ staging = atStart.staging
    /\ staging # <<>>
    /\ rowcount = 0

\* C3: after a merge, of the staged rows sharing an (invoice, stockcode) pair
\* exactly one record is in the core table, and it is the record of an earlier
\* merge or else the first loaded of the staged rows.
C3_FirstLoadedWins ==
    pc = "truncate" =>
        \A i, j \in DOMAIN staging :
            (i < j /\ SameKey(staging[i], staging[j])) =>
                LET first == CHOOSE k \in DOMAIN staging :
                                 /\ SameKey(staging[k], staging[i])
                                 /\ \A m \in 1..(k - 1) : ~SameKey(staging[m], staging[i])
                    survivors == {x \in CoreRows : SameKey(x, staging[i])}
                    earlier == {x \in BagToSet(atStart.core) : SameKey(x, staging[i])}
                IN /\ Cardinality(survivors) = 1
                   /\ IF earlier # {}
                      THEN survivors = earlier
                      ELSE survivors = {CoreRecord(staging[first])}

\* C4: a batch that fails to load never ends the run: once the run is past
\* the load stage every discovered batch was attempted, the rows of every
\* batch that loaded are in staging, and the merge stage was entered.
C4_PartialFailureIsolation ==
    /\ failedIn # "load"
    /\ (pc \in {"merge", "truncate"} \/ failedIn \in {"merge", "truncate"}) =>
        /\ idx = Len(csv_files) + 1
        /\ staging = atStart.staging \o RowsOf(loaded)

\* C5: a failed merge insert leaves every staged row in staging, leaves the
\* core table as it was, clears nothing, and the run ends failed.
C5_MergeErrorKeepsStaging ==
    failedIn = "merge" =>
        /\ pc = "failed"
        /\ staging = atStart.staging \o RowsOf(loaded)
        /\ core = atStart.core
        /\ merges = 0
        /\ truncates = 0

\* C5 witness: the merge insert failed with rows of this run in staging.
C5_Witness ==
    /\ failedIn = "merge"
    /\ loaded # <<>>
    /\ staging # <<>>

\* C6: when the clear fails after the merge committed, every merged row has
\* its record in the core table; and a retry that appends the same batches
\* onto the uncleared rows and merges leaves the core table exactly as the
\* first run's merge left it.
C6_ClearFailureRetry ==
    /\ failedIn = "truncate" =>
        /\ merges = 1
        /\ StagedIds(staging) \subseteq CoreIds(core)
    /\ (uncleared.failed /\ loaded = uncleared.loaded /\ merges = 1) =>
        core = atStart.core

\* C6 witness: the retry of a run whose clear failed has appended the same
\* batches again, merged and finished.
C6_Witness ==
    /\ uncleared.failed
    /\ loaded = uncleared.loaded
    /\ loaded # <<>>
    /\ Len(staging) = Len(atStart.staging) + Len(RowsOf(loaded))
    /\ merges = 1
    /\ rowcount = 0

\* Every record of the core table is in it, unchanged, after the step.
CoreKept == \A x \in CoreRows : CopiesIn(x, core') = CopiesIn(x, core)

\* A completed merge step leaves, for every staged row whose identifier was
\* already in core, exactly the records that carried the identifier before.
ConflictsUntouched ==
    (pc = "merge" /\ pc' = "truncate") =>
        \A i \in DOMAIN staging :
            Conflicts(core, LineItemId(staging[i])) =>
                {x \in BagToSet(core') : x.line_item_id = LineItemId(staging[i])}
                    = {x \in CoreRows : x.line_item_id = LineItemId(staging[i])}

\* C7: the core table is append-only: every step of every run keeps every
\* record of the core table with all its fields, and a merge leaves the record
\* of an identifier that was already in core untouched.
C7_CoreAppendOnly == [][CoreKept /\ ConflictsUntouched]_vars

\* C7 witness: a merge has completed although a staged row carried an
\* identifier already in core with other field values.
C7_Witness ==
    /\ pc = "truncate"
    /\ \E i \in DOMAIN staging :
        /\ Conflicts(atStart.core, LineItemId(staging[i]))
        /\ CoreRecord(staging[i]) \notin CoreRows

\* C8: the reported count is the number of records the merge added, which is
\* the number of distinct staged identifiers that were absent from core.
C8_RowcountIsInserted ==
    Merged =>
        /\ rowcount = BagCardinality(core) - BagCardinality(atStart.core)
        /\ rowcount = Cardinality(StagedIds(staging) \ CoreIds(atStart.core))

\* C8 witness: batches A and B of the example, merged into an empty core
\* table: 3 records, count 3.
C8_Witness ==
    /\ pc = "truncate"
    /\ atStart.core = EmptyBag
    /\ staging = Transform("a.csv") \o Transform("b.csv")
    /\ rowcount = 3
    /\ BagCardinality(core) = 3

\* C9: a run that discovers no batch ends in the no-op state without error,
\* having loaded, merged and cleared nothing, with both tables as it found
\* them; and no run enters the load or merge stage with an empty batch list.
C9_EmptyInputNoOp ==
    /\ pc = "noop" =>
        /\ csv_files = <<>>
        /\ failedIn = "none"
        /\ exitStatus = 0
        /\ idx = 1
        /\ loaded = <<>>
        /\ merges = 0
        /\ truncates = 0
        /\ staging = atStart.staging
        /\ core = atStart.core
    /\ pc \in {"load", "merge", "truncate", "done"} => csv_files # <<>>

\* C9 witness: the no-op state, with rows of an earlier failed run in staging.
C9_Witness ==
    /\ pc = "noop"
    /\ staging # <<>>
    /\ core # EmptyBag

\* The order of the stages within a run.
StageOrder ==
    {<<"start", "provision">>, <<"start", "exited">>,
     <<"provision", "discover">>, <<"provision", "failed">>,
     <<"discover", "load">>, <<"discover", "noop">>,
     <<"load", "load">>, <<"load", "merge">>, <<"load", "failed">>,
     <<"merge", "truncate">>, <<"merge", "failed">>,
     <<"truncate", "done">>, <<"truncate", "failed">>,
     <<"done", "start">>, <<"noop", "start">>, <<"failed", "start">>,
     <<"exited", "start">>}

StageStep == <<pc, pc'>> \in StageOrder

\* C10: the stages of a run follow one another in the order provision,
\* discover, load, merge, done; the merge starts only when every discovered
\* batch has been attempted; a run merges at most once and clears at most once.
C10_StageOrder ==
    /\ [][StageStep]_vars
    /\ []((pc \in {"merge", "truncate", "done"}) => idx = Len(csv_files) + 1)
    /\ [](merges <= 1 /\ truncates <= merges)
    /\ []((pc = "done") <=> (truncates = 1))

\* C10 witness: a run over two batches has merged once, cleared once and is done.
C10_Witness ==
    /\ pc = "done"
    /\ Len(csv_files) >= 2
    /\ idx = Len(csv_files) + 1
    /\ merges = 1
    /\ truncates = 1

\* C11: a reader of the core table sees none of the rows of the run's merge
\* or all of them: in every state the core table is as the run found it, or
\* the one merge insert has committed and every row it reported is there.
C11_MergeAtomic ==
    \/ core = atStart.core
    \/ /\ merges = 1
       /\ pc \in {"truncate", "done", "failed"}
       /\ rowcount = Cardinality(CoreIds(core) \ CoreIds(atStart.core))
       /\ Merged => StagedIds(staging) \subseteq CoreIds(core)

\* C11 witness: one merge insert has added several rows at once.
C11_Witness ==
    /\ pc = "truncate"
    /\ rowcount >= 2
    /\ BagCardinality(core) = BagCardinality(atStart.core) + rowcount

\* Everything staged up to now: the rows the run found and those it appended.
Staged == atStart.staging \o RowsOf(loaded)

\* C12: staging holds every staged row until the clear, the clear happens only
\* when the identifier of every staged row is in core, and after a successful
\* merge-and-clear staging is empty.
C12_ClearOnlyMergedRows ==
    /\ \/ staging = Staged
       \/ /\ staging = <<>>
          /\ truncates = 1
          /\ StagedIds(Staged) \subseteq CoreIds(core)
    /\ pc = "done" =>
        /\ staging = <<>>
        /\ StagedIds(Staged) \subseteq CoreIds(core)

\* C12 witness: a run has merged and cleared the rows an earlier run left
\* together with its own.
C12_Witness ==
    /\ pc = "done"
    /\ atStart.staging # <<>>
    /\ loaded # <<>>
    /\ staging = <<>>

\* C13: a run that gets no engine exits with status 1 having provisioned,
\* discovered, loaded, merged and cleared nothing, and no run reaches main's
\* failure handler or any stage without an engine.
C13_ConnectionFailureExits ==
    /\ (pc = "exited") <=> (exitStatus = 1)
    /\ pc = "exited" =>
        /\ provisions = 0
        /\ csv_files = <<>>
        /\ idx = 1
        /\ loaded = <<>>
        /\ merges = 0
        /\ truncates = 0
        /\ failedIn = "none"
        /\ staging = atStart.staging
        /\ core = atStart.core
    /\ pc \notin {"start", "exited", "provision"} => provisions = 1

\* C13 witness: a run against a warehouse that holds data has exited with 1.
C13_Witness ==
    /\ pc = "exited"
    /\ exitStatus = 1
    /\ core # EmptyBag

\* C14: a run whose provisioning failed is in the failed state and has
\* discovered, loaded, merged and cleared nothing.
C14_ProvisioningFailureStops ==
    failedIn = "provision" =>
        /\ pc = "failed"
        /\ provisions = 1
        /\ csv_files = <<>>
        /\ idx = 1
        /\ loaded = <<>>
        /\ merges = 0
        /\ truncates = 0
        /\ staging = atStart.staging
        /\ core = atStart.core

\* C14 witness: provisioning failed in a run that found rows in staging.
C14_Witness ==
    /\ failedIn = "provision"
    /\ pc = "failed"
    /\ staging # <<>>

\* C18: after provisioning, the schema is exactly the two tables and the rows
\* of both tables are those the run found.
C18_ProvisioningIdempotent ==
    (provisions = 1 /\ pc = "discover") =>
        /\ schema = {"staging_ecomm_sales", "core_ecomm_sales"}
        /\ failedIn = "none"
        /\ staging = atStart.staging
        /\ core = atStart.core

\* C18 witness: provisioning has run, without error, on tables that existed
\* and held rows.
C18_Witness ==
    /\ pc = "discover"
    /\ runs > 1
    /\ staging # <<>>
    /\ core # EmptyBag

\* C19: two staged rows with different (invoice, stockcode) pairs have
\* different identifiers, and after the merge the core table has a record of
\* each pair.
C19_IdInjective ==
    Merged =>
        \A i, j \in DOMAIN staging :
            ~SameKey(staging[i], staging[j]) =>
                /\ LineItemId(staging[i]) # LineItemId(staging[j])
                /\ \E x \in CoreRows : SameKey(x, staging[i])
                /\ \E y \in CoreRows : SameKey(y, staging[j])


(***************************************************************************)
(* Properties of process_file_to_staging (LoadSpec)                        *)
(***************************************************************************)

\* The call has returned after to_sql appended the rows of the batch.
Loaded == pc = "returned" /\ caught = "none"

\* The canonical columns of the model that the DataFrame does not have.
MissingCols == (StagingCols \ {"source_file"}) \ batch.columns

\* C15: a batch that lacks any canonical column (invoice and stockcode as
\* much as invoicedate or quantity) fails as a whole and appends no row to
\* staging, while a column outside the canonical set ("note") alone never
\* fails the batch.
C15_MissingColumnFailsBatch ==
    pc = "returned" =>
        /\ MissingCols # {} =>
              /\ caught # "none"
              /\ staging = atStart.staging
        /\ caught = "KeyError" => MissingCols # {}

\* C16: in every row loaded, a string field whose input value was missing
\* is stored as the sentinel "Unknown".
C16_NullBecomesUnknown ==
    Loaded =>
        \A i \in DOMAIN batch.rows :
            LET stored == staging[Len(atStart.staging) + i] IN
            /\ ("invoice" \in batch.columns /\ batch.rows[i].invoice = NaN)
                   => stored.invoice = Unknown
            /\ ("stockcode" \in batch.columns /\ batch.rows[i].stockcode = NaN)
                   => stored.stockcode = Unknown

\* A quantity cell that does not parse as a number.
Unparseable(cell) == cell.kind \in {"text", "nan"}

\* No statement before to_sql raises on the batch for a reason other than
\* an unparseable quantity: the date and quantity columns are there, the
\* dates parse, and no quantity is infinite.
OtherwiseClean ==
    /\ {"invoicedate", "quantity"} \subseteq batch.columns
    /\ \A i \in DOMAIN batch.rows :
          /\ batch.rows[i].invoicedate = "ok"
          /\ batch.rows[i].quantity.kind # "inf"

\* C17: an unparseable quantity is stored as 0 and fails neither the row nor
\* the batch. No conversion raises on it, and when to_sql succeeds every row
\* of the batch is in staging, the unparseable ones with quantity 0 and the
\* others with their number.
C17_UnparseableQuantityIsZero ==
    pc = "returned" =>
        /\ caught # "to_numeric"
        /\ OtherwiseClean => caught \in {"none", "to_sql"}
        /\ Loaded =>
              /\ Len(staging) = Len(atStart.staging) + Len(batch.rows)
              /\ \A i \in DOMAIN batch.rows :
                    LET stored == staging[Len(atStart.staging) + i] IN
                    /\ Unparseable(batch.rows[i].quantity) => stored.quantity = 0
                    /\ batch.rows[i].quantity.kind = "num"
                           => stored.quantity = batch.rows[i].quantity.n

C17_Witness ==
    /\ Loaded
    /\ Len(batch.rows) = 2
    /\ batch.rows[1].quantity = NonNumeric
    /\ batch.rows[2].quantity = Num(5)
    /\ staging[Len(atStart.staging) + 1].quantity = 0
    /\ staging[Len(atStart.staging) + 2].quantity = 5

\* C20: once process_file_to_staging has returned, staging is what it was
\* before the call followed by either every row of the batch (the load
\* succeeded) or none of them (an exception was caught); the earlier rows
\* are unchanged and in place in both cases.
C20_LoadAllOrNothing ==
    /\ pc = "load" => staging = atStart.staging
    /\ pc = "returned" =>
          /\ caught = "none" => staging = atStart.staging \o Normalized(batch, strDtype)
          /\ caught # "none" => staging = atStart.staging

C20_Witness ==
    /\ pc = "returned"
    /\ caught = "to_sql"
    /\ Len(batch.rows) = 2
    /\ atStart.staging # <<>>
    /\ staging = atStart.staging

====
